---------------------------- MODULE Spec2Model ----------------------------
(***************************************************************************)
(* Model of the cert-agent certificate lifecycle engine:                   *)
(*   - the Redis store capability (src/src/redis_client.rs),               *)
(*   - the certificate manager: issue / renew / revoke / get_status        *)
(*     (src/src/certificate.rs),                                           *)
(*   - the background renewer (src/src/watcher.rs),                        *)
(*   - the RPC facade as far as it calls the manager (src/src/grpc.rs).    *)
(*                                                                         *)
(* Every async function is cut at its await points: one action is the code *)
(* between two awaits together with the store / filesystem command that    *)
(* the second await completes.  A command either takes effect and returns, *)
(* or fails (IoFault) without effect and its error is propagated the way   *)
(* the source propagates it (`?`, or `if let Err(e)` + warn!).             *)
(***************************************************************************)
EXTENDS Integers, Sequences, FiniteSets, Bags, TLC

(***************************************************************************)
(* Bounds of the model                                                     *)
(***************************************************************************)
\* records present in the store when the process starts
MaxInit == 2
\* fresh certificate ids (Uuid::new_v4) available to issue_certificate
MaxNew == 3
\* RPC call slots
NumClients == 2
\* largest configured watcher.max_concurrent_renewals
MaxPermits == 2
\* Spec: concurrent RPC callers, RPC calls, renewer ticks, failing commands
SpecClients == 1
SpecCalls == 2
SpecTicks == 1
SpecFaults == 1
\* SpecSeq: RPC calls, failing commands
SeqCalls == 2
SeqFaults == 1
\* SpecClock: RPC calls, failing commands, seconds the clock runs
ClockCalls == 2
ClockFaults == 1
ClockMax == 2
\* SpecList: RPC calls, failing commands
ListCalls == 5
ListFaults == 1
\* SpecScan: renewer ticks, failing commands
ScanTicks == 1
ScanFaults == 1
\* SpecTick: renewer ticks, failing commands
TickTicks == 2
TickFaults == 1
\* SpecConfig: renewer ticks, failing commands
ConfigTicks == 1
ConfigFaults == 1
\* SpecInterval: renewer ticks, failing commands, the interval between two
\* ticks and how far the clock runs, in units of time
IntervalTicks == 3
IntervalFaults == 1
IntervalPeriod == 2
IntervalMax == 5
\* SpecCleanup: cleanup calls, failing commands
CleanupCalls == 1
CleanupFaults == 1
\* SpecSubject: RPC calls, failing commands
SubjectCalls == 1
SubjectFaults == 1
\* SpecWatch: WatchCertificates calls, ticks of the stream, failing commands
WatchCalls == 1
WatchTicks == 2
WatchFaults == 1
\* SpecRenew: RPC calls, renewer ticks, failing commands
RenewCalls == 1
RenewTicks == 1
RenewFaults == 1

(***************************************************************************)
(* Program constants and configuration                                     *)
(***************************************************************************)
\* config.rs: certificate.default_validity_days
default_validity_days == 365
\* config.rs: certificate.renewal_threshold_days
renewal_threshold_days == 30
\* config.rs: watcher.renewal_threshold_days
watcher_renewal_threshold_days == 30
\* config.rs: watcher.check_interval_seconds
check_interval_seconds == 3600
\* redis_client.rs: 24 * 60 * 60 in get_expiring_certificates
DaySeconds == 24 * 60 * 60
\* redis_client.rs: set_ex(&key, value, 365 * 24 * 60 * 60)
RecordTtl == 365 * 24 * 60 * 60
\* a key written by plain SET carries no expiry (Redis TTL reports -1)
NoTtl == -1

\* validity_days of the IssueCertificate requests
IssueValidityDays == {365}
\* validity_days is passed on as it comes (grpc.rs 64): also 0
AnyValidityDays == {0, 1, 365}

InitIds == 1 .. MaxInit
Ids == 1 .. (MaxInit + MaxNew)
Clients == 1 .. NumClients

Rpc(c) == <<"rpc", c>>
Task(i) == <<"task", i>>
RpcProcs == {Rpc(c) : c \in Clients}
TaskProcs == {Task(i) : i \in Ids}
\* the caller of CertificateWatcher::cleanup_expired_certificates
CleanupProc == <<"cleanup", 0>>
\* the task a WatchCertificates call spawns
WatchProc == <<"watch", 0>>
Procs == RpcProcs \cup TaskProcs \cup {CleanupProc, WatchProc}
IsTask(p) == p[1] = "task"

\* Option<T>: None or Some(v)
None == <<>>
Some(v) == <<v>>
IsSome(o) == Len(o) = 1
Unwrap(o) == o[1]

Statuses == {"active", "expired", "revoked", "pending"}

\* grpc.rs cert_status_to_proto: the CertificateStatus of a status string
cert_status_to_proto(status) ==
    CASE status = "active" -> "ACTIVE"
      [] status = "expired" -> "EXPIRED"
      [] status = "revoked" -> "REVOKED"
      [] status = "pending" -> "PENDING"
      [] OTHER -> "UNSPECIFIED"

\* grpc.rs proto_to_cert_status: the status string of a CertificateStatus
proto_to_cert_status(status) ==
    CASE status = "ACTIVE" -> "active"
      [] status = "EXPIRED" -> "expired"
      [] status = "REVOKED" -> "revoked"
      [] status = "PENDING" -> "pending"
      [] OTHER -> "unspecified"

VARIABLES
    store,          \* Redis keys cert:<id>  ->  [value: CertificateRecord, ttl]
    index,          \* Redis set certs:all
    files,          \* files under storage_path: <<id, "crt">>, <<id, "key">>
    events,         \* bag of messages delivered on channel cert_events
    now,            \* chrono::Utc::now().timestamp()
    next_id,        \* the next value Uuid::new_v4() yields
    proc,           \* per RPC call / renewal subtask: position and locals
    wpc,            \* position of CertificateWatcher::start / check_and_renew
    scan_ids,       \* list_certificates: ids of certs:all not fetched yet
    certificates,   \* list_certificates: records collected so far
    renewal_tasks,  \* ids whose renewal subtask was spawned in this tick
    permits,        \* available permits of renewal_semaphore
    max_concurrent_renewals, \* watcher configuration value
    ticks,          \* ticks started
    calls,          \* RPC calls started
    faults,         \* failed commands so far
    limit,          \* what one behaviour may start: clients, calls, ticks, faults,
                    \* how far the clocks run, what the requests carry
    config,         \* configuration values read at run time
    timer,          \* the renewer's tokio interval: clock, next deadline, past ticks
    stream,         \* the WatchCertificates stream: receiver alive, events sent
    was_dead,       \* history: ids whose record has been seen revoked or expired
    last            \* sequential harness: the store as the previous call left it

vars == <<store, index, files, events, now, next_id, proc, wpc, scan_ids,
          certificates, renewal_tasks, permits, max_concurrent_renewals,
          ticks, calls, faults, limit, config, timer, stream, was_dead, last>>

(***************************************************************************)
(* CertificateRecord and the store capability (redis_client.rs)            *)
(***************************************************************************)
\* the request fields a record keeps as they came
Names(common_name, dns_names, ip_addresses, metadata) ==
    [common_name |-> common_name, dns_names |-> dns_names,
     ip_addresses |-> ip_addresses, metadata |-> metadata]

CertificateRecord(id, names, status, expires_at, issued_at) ==
    [certificate_id |-> id, common_name |-> names.common_name,
     dns_names |-> names.dns_names, ip_addresses |-> names.ip_addresses,
     status |-> status, expires_at |-> expires_at, issued_at |-> issued_at,
     metadata |-> names.metadata]

\* conn.set_ex(&key, value, 365 * 24 * 60 * 60)
SetExEntry(rec) == [value |-> rec, ttl |-> RecordTtl]

\* conn.set(&key, updated_value): a plain SET discards the key's expiry
SetEntry(rec) == [value |-> rec, ttl |-> NoTtl]

\* conn.get(&key) followed by serde_json::from_str
get_certificate(s, id) == IF id \in DOMAIN s THEN Some(s[id].value) ELSE None

\* write key cert:<id>
PutKey(s, id, entry) == [k \in (DOMAIN s) \cup {id} |-> IF k = id THEN entry ELSE s[k]]

\* mutant: the copy is written back without the new status
WithStatus_Unchanged(rec, status) == rec

\* mutant: the record is rebuilt with the new status and a new issue date
WithStatus_Reissued(rec, status) == [rec EXCEPT !.status = status, !.issued_at = 0]

\* cert_record.status = status.to_string()
WithStatus(rec, status) == [rec EXCEPT !.status = status]

\* mutant: a record that already carries the status is rejected
UpdateStatusResult_RejectSame(value, status) ==
    IF IsSome(value) /\ Unwrap(value).status = status THEN "Certificate" ELSE "ok"

\* mutant: an absent record is an error
UpdateStatusResult_NotFound(value, status) ==
    IF IsSome(value) THEN "ok" ELSE "CertificateNotFound"

\* update_certificate_status: `if let Some(v) = value {...}  Ok(())`:
\* the result of the call for the value it read
UpdateStatusResult(value, status) == "ok"

\* mutant: renew writes the old record back as active
RenewOldStatus_Active == "active"

\* the status renew_certificate writes on the old record
RenewOldStatus == "revoked"

\* the status revoke_certificate writes
RevokeStatus == "revoked"

\* mutant: the filter keeps active records only, also when none is given
Matches_ActiveOnly(rec, status_filter) == rec.status = "active"

\* mutant: the filter is ignored
Matches_IgnoreFilter(rec, status_filter) == TRUE

\* list_certificates 110-117: the record is pushed when no filter is given
\* or its status equals the filter
Matches(rec, status_filter) ==
    IF IsSome(status_filter) THEN rec.status = Unwrap(status_filter) ELSE TRUE

\* ids whose record carries a final label
DeadIds(s) == {i \in DOMAIN s : s[i].value.status \in {"revoked", "expired"}}

\* mutant: records already past expiry pass the filter
IsExpiring_IncludesPast(cert, current_time, threshold_days) ==
    LET threshold_seconds == threshold_days * DaySeconds
        time_until_expiry == cert.expires_at - current_time
    IN  time_until_expiry <= threshold_seconds

\* mutant: the threshold comparison is inverted
IsExpiring_Inverted(cert, current_time, threshold_days) ==
    LET threshold_seconds == threshold_days * DaySeconds
        time_until_expiry == cert.expires_at - current_time
    IN  time_until_expiry > 0 /\ time_until_expiry > threshold_seconds

\* get_expiring_certificates: the filter closure
IsExpiring(cert, current_time, threshold_days) ==
    LET threshold_seconds == threshold_days * DaySeconds
        time_until_expiry == cert.expires_at - current_time
    IN  time_until_expiry > 0 /\ time_until_expiry <= threshold_seconds

\* publish_event: the payload "<event>:<data>"
Event(event, data) == <<event>> \o data

Publish(ev) == events (+) SetToBag({ev})

(***************************************************************************)
(* Locals of one call                                                      *)
(***************************************************************************)
\* the optional components of a subject name, in the order certificate.rs
\* appends them after CN
DnKeys == {"O", "OU", "C", "ST", "L"}

\* renew_certificate 290-294: organization: None, ..., locality: None
NoDn == [k \in DnKeys |-> None]

\* what an IssueCertificateRequest carries in organization,
\* organizational_unit, country, state, locality: proto3 strings, empty when
\* the caller left them out
DnStrings == {"", "x"}
DnRequests == [DnKeys -> DnStrings]
FullDn == [k \in DnKeys |-> "x"]

\* grpc.rs 65-69: organization: Some(req.organization), ...
GrpcDn(req) == [k \in DnKeys |-> Some(req[k])]

IdleProc ==
    [pc |-> "idle", op |-> "none", id |-> 0,
     common_name |-> 0, validity_days |-> 0,
     dns_names |-> <<>>, ip_addresses |-> <<>>, metadata |-> {},
     dn |-> NoDn, subject |-> None, requested_days |-> 0,
     cutoff_time |-> 0, cleaned_count |-> 0,
     req_certificate_ids |-> {}, tick |-> 0,
     value |-> None, new_id |-> 0,
     res |-> "none", err |-> "none", errAt |-> "none",
     warned |-> FALSE, status0 |-> None,
     status_filter |-> None, certificate_ids |-> {}, certificates |-> {}]

\* mutant: the subtask announces the renewal whatever renew_certificate returned
AfterManager_AlwaysRenewed(p, res) ==
    IF IsTask(p) THEN "pub_auto_renewed" ELSE "done"

\* where a call continues when the manager function returns
AfterManager(p, res) ==
    IF IsTask(p)
    THEN (IF res = "ok" THEN "pub_auto_renewed" ELSE "pub_renewal_failed")
    ELSE IF proc[p].op = "cleanup" /\ proc[p].pc \in {"smembers", "list_get"} /\ res = "ok"
    THEN "cleanup_loop"
    ELSE IF proc[p].op = "watch" /\ proc[p].pc \in {"smembers", "list_get"}
    THEN (IF res = "ok" THEN "watch_send" ELSE "watch_error")
    ELSE "done"

ReturnOk(p) ==
    [proc EXCEPT ![p].res = "ok", ![p].pc = AfterManager(p, "ok")]

ReturnErr(p, kind, at) ==
    [proc EXCEPT ![p].res = "err", ![p].err = kind, ![p].errAt = at,
                 ![p].pc = AfterManager(p, "err")]


(***************************************************************************)
(* Initial states                                                          *)
(***************************************************************************)
\* The store is an external, persistent Redis: the process starts on whatever
\* earlier runs and operators left there.  status is a free string of the
\* record; the code reads the labels active, expired, revoked and pending
\* (grpc.rs cert_status_to_proto, watcher.rs cleanup_expired_certificates).
InitKinds == {"active_soon", "active_far", "expired", "revoked", "pending"}

\* Spec starts with one active record (the one the renewer may pick) and
\* records of the other labels
SpecKinds(i) == IF i = 1 THEN {"active_soon", "active_far"}
                ELSE {"expired", "revoked", "pending"}

\* the names of the records the process starts on: one set per record
InitNames(i) == Names(i, <<i>>, <<i>>, {<<"owner", i>>})

InitRecord(i, kind, t) ==
    CASE kind = "active_soon" ->
            SetExEntry(CertificateRecord(i, InitNames(i), "active", t + 10 * DaySeconds, t - 20 * DaySeconds))
      [] kind = "active_far" ->
            SetExEntry(CertificateRecord(i, InitNames(i), "active", t + 40 * DaySeconds, t - 20 * DaySeconds))
      [] kind = "expired" ->
            SetExEntry(CertificateRecord(i, InitNames(i), "expired", t - 1 * DaySeconds, t - 31 * DaySeconds))
      [] kind = "revoked" ->
            SetEntry(CertificateRecord(i, InitNames(i), "revoked", t + 10 * DaySeconds, t - 20 * DaySeconds))
      [] OTHER ->
            SetExEntry(CertificateRecord(i, InitNames(i), "pending", t + 10 * DaySeconds, t - 20 * DaySeconds))

\* config.rs Default: the values the sections certificate and watcher carry
DefaultConfig ==
    [default_validity_days |-> default_validity_days,
     renewal_threshold_days |-> renewal_threshold_days,
     watcher_renewal_threshold_days |-> watcher_renewal_threshold_days,
     check_interval_seconds |-> check_interval_seconds]

InitCommon ==
    /\ now = 0
    /\ timer = [instant |-> 0, deadline |-> 0, fired |-> <<>>]
    /\ stream = [open |-> TRUE, sent |-> EmptyBag]
    /\ index = DOMAIN store
    /\ files = {<<i, x>> : i \in DOMAIN store, x \in {"crt", "key"}}
    /\ events = EmptyBag
    /\ next_id = MaxInit + 1
    /\ proc = [p \in Procs |-> IdleProc]
    /\ wpc = "Idle"
    /\ scan_ids = {}
    /\ certificates = {}
    /\ renewal_tasks = {}
    /\ permits = max_concurrent_renewals
    /\ ticks = 0
    /\ calls = 0
    /\ faults = 0
    /\ was_dead = DeadIds(store)
    /\ last = [store |-> store, index |-> index, files |-> files, op |-> "none",
               id |-> 0, res |-> "none", clean |-> TRUE, faults |-> 0]

Init ==
    /\ \E kinds \in [InitIds -> InitKinds] :
          /\ \A i \in InitIds : kinds[i] \in SpecKinds(i)
          /\ store = [i \in InitIds |-> InitRecord(i, kinds[i], 0)]
    /\ max_concurrent_renewals = MaxPermits
    /\ limit = [clients |-> SpecClients, calls |-> SpecCalls,
                ticks |-> SpecTicks, faults |-> SpecFaults,
                clock |-> 0, validity_days |-> IssueValidityDays,
                dn |-> {FullDn}, renew_days |-> {0}, instant |-> 0]
    /\ config = DefaultConfig
    /\ InitCommon

(***************************************************************************)
(* RPC facade (grpc.rs): a call enters the manager                         *)
(***************************************************************************)
\* ids a caller can name: those of records in the store, and an id that was
\* never issued
UnknownId == 0
Targets == (DOMAIN store) \cup {UnknownId}

CommonNames == {0}

\* grpc.rs issue_certificate -> CertificateManager::issue_certificate
CallIssue(c) ==
    /\ proc[Rpc(c)].pc = "idle"
    /\ c <= limit.clients
    /\ calls < limit.calls
    /\ \E cn \in CommonNames, vd \in limit.validity_days, req \in limit.dn :
          proc' = [proc EXCEPT ![Rpc(c)] =
                      [IdleProc EXCEPT !.pc = "write_crt", !.op = "issue",
                                       !.common_name = cn, !.validity_days = vd,
                                       !.dns_names = <<cn>>, !.dn = GrpcDn(req)]]
    /\ calls' = calls + 1
    /\ UNCHANGED <<store, index, files, events, now, next_id, wpc, scan_ids,
                   certificates, renewal_tasks, permits,
                   max_concurrent_renewals, config, timer, stream, ticks, faults, limit, was_dead, last>>

\* mutant: a renewal always runs for the configured default
RenewValidity_AlwaysDefault(validity_days) == config.default_validity_days

\* grpc.rs renew_certificate: validity_days > 0 ? Some(validity_days) : None
\* certificate.rs 288: validity_days.unwrap_or(default_validity_days)
RenewValidity(validity_days) ==
    IF validity_days > 0 THEN validity_days ELSE config.default_validity_days

CallRenew(c) ==
    /\ proc[Rpc(c)].pc = "idle"
    /\ c <= limit.clients
    /\ calls < limit.calls
    /\ \E i \in Targets, vd \in limit.renew_days :
          proc' = [proc EXCEPT ![Rpc(c)] =
                      [IdleProc EXCEPT !.pc = "renew_get", !.op = "renew", !.id = i,
                                       !.requested_days = vd,
                                       !.validity_days = RenewValidity(vd)]]
    /\ calls' = calls + 1
    /\ UNCHANGED <<store, index, files, events, now, next_id, wpc, scan_ids,
                   certificates, renewal_tasks, permits,
                   max_concurrent_renewals, config, timer, stream, ticks, faults, limit, was_dead, last>>

\* grpc.rs revoke_certificate -> CertificateManager::revoke_certificate
CallRevoke(c) ==
    /\ proc[Rpc(c)].pc = "idle"
    /\ c <= limit.clients
    /\ calls < limit.calls
    /\ \E i \in Targets :
          proc' = [proc EXCEPT ![Rpc(c)] =
                      [IdleProc EXCEPT !.pc = "upd_get", !.op = "revoke", !.id = i]]
    /\ calls' = calls + 1
    /\ UNCHANGED <<store, index, files, events, now, next_id, wpc, scan_ids,
                   certificates, renewal_tasks, permits,
                   max_concurrent_renewals, config, timer, stream, ticks, faults, limit, was_dead, last>>

\* grpc.rs get_certificate_status -> CertificateManager::get_certificate_status
CallGetStatus(c) ==
    /\ proc[Rpc(c)].pc = "idle"
    /\ c <= limit.clients
    /\ calls < limit.calls
    /\ \E i \in Targets :
          proc' = [proc EXCEPT ![Rpc(c)] =
                      [IdleProc EXCEPT !.pc = "get", !.op = "get_status", !.id = i]]
    /\ calls' = calls + 1
    /\ UNCHANGED <<store, index, files, events, now, next_id, wpc, scan_ids,
                   certificates, renewal_tasks, permits,
                   max_concurrent_renewals, config, timer, stream, ticks, faults, limit, was_dead, last>>

\* grpc.rs 115-141: RenewCertificate answers Ok(response), or
\* Status::internal for every error of the manager
RenewRpcStatus(res, err) == IF res = "ok" THEN "Ok" ELSE "Internal"

\* mutant: a failed revoke fails the call
RevokeResponse_FailsCall(id, res, err) ==
    IF res = "ok"
    THEN [status |-> "Ok", certificate_id |-> id, success |-> TRUE,
          message |-> <<"Certificate revoked successfully">>]
    ELSE [status |-> "Internal", certificate_id |-> id, success |-> FALSE,
          message |-> <<"Failed to revoke certificate", err>>]

\* grpc.rs 159-179: RevokeCertificate answers Ok(response) in both arms
RevokeResponse(id, res, err) ==
    IF res = "ok"
    THEN [status |-> "Ok", certificate_id |-> id, success |-> TRUE,
          message |-> <<"Certificate revoked successfully">>]
    ELSE [status |-> "Ok", certificate_id |-> id, success |-> FALSE,
          message |-> <<"Failed to revoke certificate", err>>]

\* mutant: an absent record is answered with an internal error
GetStatusResponse_MissingIsInternal(res, value) ==
    IF res = "ok" /\ IsSome(value)
    THEN [status |-> "Ok",
          certificate_id |-> Unwrap(value).certificate_id,
          cert_status |-> cert_status_to_proto(Unwrap(value).status),
          expires_at |-> Unwrap(value).expires_at,
          issued_at |-> Unwrap(value).issued_at,
          common_name |-> Unwrap(value).common_name]
    ELSE [status |-> "Internal"]

\* grpc.rs 189-223: GetCertificateStatus answers the record's fields, the
\* status as CertificateStatus; not_found for Ok(None), internal for Err
GetStatusResponse(res, value) ==
    IF res = "ok" /\ IsSome(value)
    THEN [status |-> "Ok",
          certificate_id |-> Unwrap(value).certificate_id,
          cert_status |-> cert_status_to_proto(Unwrap(value).status),
          expires_at |-> Unwrap(value).expires_at,
          issued_at |-> Unwrap(value).issued_at,
          common_name |-> Unwrap(value).common_name]
    ELSE IF res = "ok" THEN [status |-> "NotFound"]
    ELSE [status |-> "Internal"]

\* the RPC handler builds its response and the call slot is free again
RpcReturn(c) ==
    /\ proc[Rpc(c)].pc = "done"
    /\ proc' = [proc EXCEPT ![Rpc(c)] = IdleProc]
    /\ UNCHANGED <<store, index, files, events, now, next_id, wpc, scan_ids,
                   certificates, renewal_tasks, permits,
                   max_concurrent_renewals, config, timer, stream, ticks, calls, faults, limit, was_dead, last>>


(***************************************************************************)
(* CertificateManager::issue_certificate (certificate.rs 146-264)          *)
(***************************************************************************)
\* mutant: the record is put before the key file is written
IssueNext_PutBeforeKey(pc) ==
    CASE pc = "write_crt" -> "set_ex"
      [] pc = "set_ex" -> "sadd"
      [] pc = "sadd" -> "write_key"
      [] OTHER -> "pub_issued"

\* 234-254: the order of the commands of issue_certificate: <id>.crt,
\* <id>.key, SET EX, SADD, PUBLISH
IssueNext(pc) ==
    CASE pc = "write_crt" -> "write_key"
      [] pc = "write_key" -> "set_ex"
      [] pc = "set_ex" -> "sadd"
      [] OTHER -> "pub_issued"

\* 157-175: CN is appended, then each optional component that is Some(..),
\* whatever its text
Subject(common_name, dn) ==
    [k \in {"CN"} \cup {x \in DnKeys : IsSome(dn[x])} |->
        IF k = "CN" THEN common_name ELSE Unwrap(dn[k])]

\* X509NameBuilder::append_entry_by_text with an empty text: the OpenSSL the
\* binary is linked with either refuses the entry (the `?` ends the issue
\* with CertAgentError::OpenSsl) or adds an entry with an empty value
SubjectNames(common_name, dn) ==
    IF \E k \in DnKeys : dn[k] = Some("")
    THEN {Some(Subject(common_name, dn)), None}
    ELSE {Some(Subject(common_name, dn))}

\* 150-234: Uuid::new_v4, key generation, certificate build and signature,
\* fs::write(<id>.crt)
WriteCrt(p) ==
    /\ proc[p].pc = "write_crt"
    /\ next_id \in Ids
    /\ \E name \in SubjectNames(proc[p].common_name, proc[p].dn) :
          IF IsSome(name)
          THEN /\ files' = files \cup {<<next_id, "crt">>}
               /\ proc' = [proc EXCEPT ![p].new_id = next_id, ![p].subject = name,
                                        ![p].pc = IssueNext("write_crt")]
               /\ next_id' = next_id + 1
          ELSE /\ proc' = ReturnErr(p, "OpenSsl", "name")
               /\ UNCHANGED <<files, next_id>>
    /\ UNCHANGED <<store, index, events, now, wpc, scan_ids, certificates,
                   renewal_tasks, permits, max_concurrent_renewals, config, timer, stream, ticks,
                   calls, faults, limit, was_dead, last>>

\* 235: fs::write(<id>.key)
WriteKey(p) ==
    /\ proc[p].pc = "write_key"
    /\ files' = files \cup {<<proc[p].new_id, "key">>}
    /\ proc' = [proc EXCEPT ![p].pc = IssueNext("write_key")]
    /\ UNCHANGED <<store, index, events, now, next_id, wpc, scan_ids,
                   certificates, renewal_tasks, permits,
                   max_concurrent_renewals, config, timer, stream, ticks, calls, faults, limit, was_dead, last>>

\* 237-248: the record issue_certificate builds: expires_at from the first
\* reading of Utc::now() (237), issued_at from the second (245)
RequestNames(request) ==
    Names(request.common_name, request.dns_names, request.ip_addresses,
          request.metadata)

\* mutant: the new record is stored as pending
IssuedRecord_Pending(id, names, validity_days, now_expires, now_issued) ==
    CertificateRecord(id, names, "pending", now_expires + validity_days * DaySeconds,
                      now_issued)

IssuedRecord(id, names, validity_days, now_expires, now_issued) ==
    CertificateRecord(id, names, "active", now_expires + validity_days * DaySeconds,
                      now_issued)

\* 237-251 -> store_certificate 46-51: build the record, the clock running on
\* between the two readings, and SET cert:<id> EX one year
SetEx(p) ==
    /\ proc[p].pc = "set_ex"
    /\ \E elapsed \in 0 .. (limit.clock - now) :
          /\ now' = now + elapsed
          /\ store' = PutKey(store, proc[p].new_id,
                             SetExEntry(IssuedRecord(proc[p].new_id, RequestNames(proc[p]),
                                                     proc[p].validity_days, now, now')))
    /\ was_dead' = was_dead \cup DeadIds(store')
    /\ proc' = [proc EXCEPT ![p].pc = IssueNext("set_ex")]
    /\ UNCHANGED <<index, files, events, next_id, wpc, scan_ids,
                   certificates, renewal_tasks, permits,
                   max_concurrent_renewals, config, timer, stream, ticks, calls, faults, limit, last>>

\* store_certificate 54-57: SADD certs:all <id>
SAdd(p) ==
    /\ proc[p].pc = "sadd"
    /\ index' = index \cup {proc[p].new_id}
    /\ proc' = [proc EXCEPT ![p].pc = IssueNext("sadd")]
    /\ UNCHANGED <<store, files, events, now, next_id, wpc, scan_ids,
                   certificates, renewal_tasks, permits,
                   max_concurrent_renewals, config, timer, stream, ticks, calls, faults, limit, was_dead, last>>

\* 254-263: publish issued:<id>, return Ok(IssuedCertificate); inside
\* renew_certificate (300) the caller goes on to update_certificate_status
PubIssued(p) ==
    /\ proc[p].pc = "pub_issued"
    /\ events' = Publish(Event("issued", <<proc[p].new_id>>))
    /\ proc' = IF proc[p].op = "renew"
               THEN [proc EXCEPT ![p].pc = "upd_get"]
               ELSE ReturnOk(p)
    /\ UNCHANGED <<store, index, files, now, next_id, wpc, scan_ids,
                   certificates, renewal_tasks, permits,
                   max_concurrent_renewals, config, timer, stream, ticks, calls, faults, limit, was_dead, last>>

(***************************************************************************)
(* CertificateManager::renew_certificate (certificate.rs 266-314)          *)
(***************************************************************************)
\* 271-297: get_certificate, not-found and status checks, renewal request
RenewGet(p) ==
    /\ proc[p].pc = "renew_get"
    /\ LET v == get_certificate(store, proc[p].id)
       IN  proc' =
             IF ~IsSome(v)
             THEN ReturnErr(p, "CertificateNotFound", "renew_get")
             ELSE IF Unwrap(v).status # "active"
             THEN ReturnErr(p, "Certificate", "renew_get")
             ELSE [proc EXCEPT ![p].common_name = Unwrap(v).common_name,
                               ![p].dns_names = Unwrap(v).dns_names,
                               ![p].ip_addresses = Unwrap(v).ip_addresses,
                               ![p].metadata = Unwrap(v).metadata,
                               ![p].dn = NoDn,
                               ![p].pc = "write_crt"]
    /\ UNCHANGED <<store, index, files, events, now, next_id, wpc, scan_ids,
                   certificates, renewal_tasks, permits,
                   max_concurrent_renewals, config, timer, stream, ticks, calls, faults, limit, was_dead, last>>

\* the status argument of update_certificate_status (304 / 323)
TargetStatus(op) == IF op = "renew" THEN RenewOldStatus ELSE RevokeStatus

\* update_certificate_status 77-84: GET cert:<id>; an absent key ends the
\* call with Ok(()) without a write
UpdGet(p) ==
    /\ proc[p].pc = "upd_get"
    /\ LET v == get_certificate(store, proc[p].id)
           r == UpdateStatusResult(v, TargetStatus(proc[p].op))
       IN  proc' =
             IF r # "ok"
             THEN ReturnErr(p, r, "upd_get")
             ELSE IF IsSome(v)
             THEN [proc EXCEPT ![p].value = v, ![p].pc = "upd_set"]
             ELSE [proc EXCEPT ![p].value = v, ![p].pc = "pub_revoked"]
    /\ UNCHANGED <<store, index, files, events, now, next_id, wpc, scan_ids,
                   certificates, renewal_tasks, permits,
                   max_concurrent_renewals, config, timer, stream, ticks, calls, faults, limit, was_dead, last>>

\* update_certificate_status 85-93: SET cert:<id> with the mutated copy
UpdSet(p) ==
    /\ proc[p].pc = "upd_set"
    /\ store' = PutKey(store, proc[p].id,
                       SetEntry(WithStatus(Unwrap(proc[p].value),
                                           TargetStatus(proc[p].op))))
    /\ was_dead' = was_dead \cup DeadIds(store')
    /\ proc' = [proc EXCEPT ![p].pc = "pub_revoked"]
    /\ UNCHANGED <<index, files, events, now, next_id, wpc, scan_ids,
                   certificates, renewal_tasks, permits,
                   max_concurrent_renewals, config, timer, stream, ticks, calls, faults, limit, last>>

\* renew 306: publish revoked:<id>;  revoke 327-334: publish
\* revoked:<id>:<reason> and return Ok(())
PubRevoked(p) ==
    /\ proc[p].pc = "pub_revoked"
    /\ events' = Publish(IF proc[p].op = "renew"
                         THEN Event("revoked", <<proc[p].id>>)
                         ELSE Event("revoked", <<proc[p].id, "reason">>))
    /\ proc' = IF proc[p].op = "renew"
               THEN [proc EXCEPT ![p].pc = "pub_renewed"]
               ELSE ReturnOk(p)
    /\ UNCHANGED <<store, index, files, now, next_id, wpc, scan_ids,
                   certificates, renewal_tasks, permits,
                   max_concurrent_renewals, config, timer, stream, ticks, calls, faults, limit, was_dead, last>>

\* renew 309-313: publish renewed:<new_id>, return Ok(new_cert)
PubRenewed(p) ==
    /\ proc[p].pc = "pub_renewed"
    /\ events' = Publish(Event("renewed", <<proc[p].new_id>>))
    /\ proc' = ReturnOk(p)
    /\ UNCHANGED <<store, index, files, now, next_id, wpc, scan_ids,
                   certificates, renewal_tasks, permits,
                   max_concurrent_renewals, config, timer, stream, ticks, calls, faults, limit, was_dead, last>>

\* CertificateManager::get_certificate_status 337-342
GetStatus(p) ==
    /\ proc[p].pc = "get"
    /\ proc' = [ReturnOk(p) EXCEPT ![p].value = get_certificate(store, proc[p].id)]
    /\ UNCHANGED <<store, index, files, events, now, next_id, wpc, scan_ids,
                   certificates, renewal_tasks, permits,
                   max_concurrent_renewals, config, timer, stream, ticks, calls, faults, limit, was_dead, last>>

(***************************************************************************)
(* RedisClient::list_certificates behind the ListCertificates RPC          *)
(***************************************************************************)
\* the CertificateStatus values a request carries
ListRequestStatuses == {"UNSPECIFIED", "ACTIVE", "REVOKED"}

\* grpc.rs 232-236: no filter for the unspecified status
ListFilter(status) ==
    IF status = cert_status_to_proto("") THEN None
    ELSE Some(proto_to_cert_status(status))

\* grpc.rs list_certificates -> CertificateManager::list_certificates
CallList(c) ==
    /\ proc[Rpc(c)].pc = "idle"
    /\ c <= limit.clients
    /\ calls < limit.calls
    /\ \E status \in ListRequestStatuses :
          proc' = [proc EXCEPT ![Rpc(c)] =
                      [IdleProc EXCEPT !.pc = "smembers", !.op = "list",
                                       !.status_filter = ListFilter(status)]]
    /\ calls' = calls + 1
    /\ UNCHANGED <<store, index, files, events, now, next_id, wpc, scan_ids,
                   certificates, renewal_tasks, permits,
                   max_concurrent_renewals, config, timer, stream, ticks, faults, limit, was_dead, last>>

\* list_certificates 97-101: SMEMBERS certs:all; with no member the loop is
\* skipped and the empty list returned
ListMembers(p) ==
    /\ proc[p].pc = "smembers"
    /\ proc' = IF index = {}
               THEN ReturnOk(p)
               ELSE [proc EXCEPT ![p].certificate_ids = index, ![p].pc = "list_get"]
    /\ UNCHANGED <<store, index, files, events, now, next_id, wpc, scan_ids,
                   certificates, renewal_tasks, permits,
                   max_concurrent_renewals, config, timer, stream, ticks, calls, faults, limit, was_dead, last>>

\* list_certificates 103-121: GET cert:<id> for one id of the snapshot, push
\* the record when it exists and passes the filter; Ok(certificates) after
\* the last id
ListGet(p) ==
    /\ proc[p].pc = "list_get"
    /\ \E i \in proc[p].certificate_ids :
          LET v == get_certificate(store, i)
              certs == IF IsSome(v) /\ Matches(Unwrap(v), proc[p].status_filter)
                       THEN proc[p].certificates \cup {Unwrap(v)}
                       ELSE proc[p].certificates
          IN  proc' =
                IF proc[p].certificate_ids = {i}
                THEN [ReturnOk(p) EXCEPT ![p].certificate_ids = {},
                                         ![p].certificates = certs]
                ELSE [proc EXCEPT ![p].certificate_ids = @ \ {i},
                                  ![p].certificates = certs]
    /\ UNCHANGED <<store, index, files, events, now, next_id, wpc, scan_ids,
                   certificates, renewal_tasks, permits,
                   max_concurrent_renewals, config, timer, stream, ticks, calls, faults, limit, was_dead, last>>

ListStep(p) ==
    \/ ListMembers(p)
    \/ ListGet(p)

(***************************************************************************)
(* Failing commands                                                        *)
(***************************************************************************)
\* the steps of the manager whose command can fail, and the steps that
\* publish on cert_events
PublishSteps == {"pub_issued", "pub_revoked", "pub_renewed", "pub_cleanup"}
StoreSteps == {"renew_get", "set_ex", "sadd", "upd_get", "upd_set", "get",
               "smembers", "list_get"}
FileSteps == {"write_crt", "write_key"}

\* error.rs: the CertAgentError variant a failed command maps to
ErrorKind(step) == IF step \in FileSteps THEN "Io" ELSE "Redis"

\* a command of the manager fails: nothing is written by it, and the error
\* is handed to the caller (certificate.rs: every command is followed by `?`)
IoFault(p) ==
    /\ proc[p].pc \in PublishSteps \cup StoreSteps \cup FileSteps
    /\ faults < limit.faults
    /\ faults' = faults + 1
    /\ proc' = ReturnErr(p, ErrorKind(proc[p].pc), proc[p].pc)
    /\ UNCHANGED <<store, index, files, events, now, next_id, wpc, scan_ids,
                   certificates, renewal_tasks, permits,
                   max_concurrent_renewals, config, timer, stream, ticks, calls, limit, was_dead, last>>


(***************************************************************************)
(* CertificateWatcher (watcher.rs)                                         *)
(***************************************************************************)
\* get_expiring_certificates 126-137 and check_and_renew_certificates 58-114:
\* filter the collected active records, return when none is expiring,
\* otherwise spawn one subtask per expiring record
\* mutant: an error of check_and_renew_certificates ends the loop of start
AfterCheck_StopsOnError(result) == IF result = "err" THEN "Stopped" ELSE "Idle"

\* start 44-50: `if let Err(e) = ... { error!(..) }`: whatever the result of
\* check_and_renew_certificates, the loop goes back to interval.tick()
AfterCheck(result) == "Idle"

Expiring(certs, t) == {c \in certs : IsExpiring(c, t, config.renewal_threshold_days)}

SpawnedProc(i) == [IdleProc EXCEPT !.pc = "acquire", !.op = "renew", !.id = i,
                                   !.validity_days = config.default_validity_days]

Dispatch(certs) ==
    LET expiring_certs == Expiring(certs, now)
        ids == {c.certificate_id : c \in expiring_certs}
    IN  /\ scan_ids' = {}
        /\ certificates' = {}
        /\ renewal_tasks' = ids
        /\ wpc' = IF ids = {} THEN AfterCheck("ok") ELSE "Collecting"
        /\ proc' = [p \in Procs |->
                      IF IsTask(p) /\ p[2] \in ids THEN SpawnedProc(p[2]) ELSE proc[p]]

\* tokio::time::interval as start builds it (35-37): the behaviour on missed
\* ticks is left at its default, Burst: the next deadline is the previous
\* deadline plus the period, however late the tick fired
NextDeadline(deadline, at, period) == deadline + period

\* interval.tick().await (43): returns at the deadline, or at once when the
\* deadline has passed
IntervalTick(t, period) ==
    LET at == IF t.instant > t.deadline THEN t.instant ELSE t.deadline
    IN  [instant |-> at, deadline |-> NextDeadline(t.deadline, at, period),
         fired |-> Append(t.fired, at)]

\* start 43-46, list_certificates 97-99: interval.tick(), SMEMBERS certs:all
Tick ==
    /\ wpc = "Idle"
    /\ ticks < limit.ticks
    /\ ticks' = ticks + 1
    /\ timer' = IntervalTick(timer, config.check_interval_seconds)
    /\ IF index = {}
       THEN Dispatch({})
       ELSE /\ scan_ids' = index
            /\ certificates' = {}
            /\ wpc' = "Scanning"
            /\ UNCHANGED <<proc, renewal_tasks>>
    /\ UNCHANGED <<store, index, files, events, now, next_id, permits,
                   max_concurrent_renewals, config, stream, calls, faults, limit, was_dead, last>>

\* list_certificates 103-119: GET cert:<id> for one id of the snapshot, keep
\* the record when its status is the filter ("active"); after the last id the
\* list returns and the caller filters and dispatches
ScanGet(i) ==
    /\ wpc = "Scanning"
    /\ i \in scan_ids
    /\ LET v == get_certificate(store, i)
           certs == IF IsSome(v) /\ Matches(Unwrap(v), Some("active"))
                    THEN certificates \cup {Unwrap(v)}
                    ELSE certificates
       IN  IF scan_ids = {i}
           THEN Dispatch(certs)
           ELSE /\ scan_ids' = scan_ids \ {i}
                /\ certificates' = certs
                /\ UNCHANGED <<proc, renewal_tasks, wpc>>
    /\ UNCHANGED <<store, index, files, events, now, next_id, permits,
                   max_concurrent_renewals, config, timer, stream, ticks, calls, faults, limit, was_dead, last>>

\* a command of the scan fails: check_and_renew_certificates returns Err (56),
\* start logs it (45-50) and waits for the next tick
ScanFault ==
    /\ wpc = "Scanning"
    /\ faults < limit.faults
    /\ faults' = faults + 1
    /\ wpc' = AfterCheck("err")
    /\ scan_ids' = {}
    /\ certificates' = {}
    /\ UNCHANGED <<store, index, files, events, now, next_id, proc,
                   renewal_tasks, permits, max_concurrent_renewals, config, timer, stream, ticks,
                   calls, limit, was_dead, last>>

\* the status of a record as the store holds it
StatusOf(s, id) == IF id \in DOMAIN s THEN Some(s[id].value.status) ELSE None

\* mutant: the subtask does not wait for a permit
CanAcquire_NoWait(available) == TRUE

\* 78: renewal_semaphore.acquire(): take a permit when one is available
CanAcquire(available) == available > 0

Acquire(i) ==
    /\ proc[Task(i)].pc = "acquire"
    /\ CanAcquire(permits)
    /\ permits' = permits - 1
    /\ proc' = [proc EXCEPT ![Task(i)].pc = "renew_get",
                            ![Task(i)].status0 = StatusOf(store, i)]
    /\ UNCHANGED <<store, index, files, events, now, next_id, wpc, scan_ids,
                   certificates, renewal_tasks, max_concurrent_renewals, config, timer, stream,
                   ticks, calls, faults, limit, was_dead, last>>

\* 83-98: Ok(new_cert): publish auto_renewed:<new_id>
PubAutoRenewed(i) ==
    /\ proc[Task(i)].pc = "pub_auto_renewed"
    /\ events' = Publish(Event("auto_renewed", <<proc[Task(i)].new_id>>))
    /\ proc' = [proc EXCEPT ![Task(i)].pc = "exit"]
    /\ UNCHANGED <<store, index, files, now, next_id, wpc, scan_ids,
                   certificates, renewal_tasks, permits,
                   max_concurrent_renewals, config, timer, stream, ticks, calls, faults, limit, was_dead, last>>

\* 99-109: Err(e): publish renewal_failed:<cert_id>:<e>
PubRenewalFailed(i) ==
    /\ proc[Task(i)].pc = "pub_renewal_failed"
    /\ events' = Publish(Event("renewal_failed", <<i, proc[Task(i)].err>>))
    /\ proc' = [proc EXCEPT ![Task(i)].pc = "exit"]
    /\ UNCHANGED <<store, index, files, now, next_id, wpc, scan_ids,
                   certificates, renewal_tasks, permits,
                   max_concurrent_renewals, config, timer, stream, ticks, calls, faults, limit, was_dead, last>>

\* 90-95 / 104-106: the publish of the subtask fails: warn!, nothing else
PubFault(i) ==
    /\ proc[Task(i)].pc \in {"pub_auto_renewed", "pub_renewal_failed"}
    /\ faults < limit.faults
    /\ faults' = faults + 1
    /\ proc' = [proc EXCEPT ![Task(i)].pc = "exit", ![Task(i)].warned = TRUE]
    /\ UNCHANGED <<store, index, files, events, now, next_id, wpc, scan_ids,
                   certificates, renewal_tasks, permits,
                   max_concurrent_renewals, config, timer, stream, ticks, calls, limit, was_dead, last>>

\* 111: the subtask ends, _permit is dropped
TaskExit(i) ==
    /\ proc[Task(i)].pc = "exit"
    /\ permits' = permits + 1
    /\ proc' = [proc EXCEPT ![Task(i)].pc = "finished"]
    /\ UNCHANGED <<store, index, files, events, now, next_id, wpc, scan_ids,
                   certificates, renewal_tasks, max_concurrent_renewals, config, timer, stream,
                   ticks, calls, faults, limit, was_dead, last>>

\* mutant: the tick returns without awaiting its join handles
Joined_NoWait(tasks) == TRUE

\* 120-132: `for task in renewal_tasks { match task.await ... }` has got the
\* result of every spawned task
Joined(tasks) == \A i \in tasks : proc[Task(i)].pc = "finished"

\* 116-139: every task.await has returned; back to interval.tick()
Collect ==
    /\ wpc = "Collecting"
    /\ Joined(renewal_tasks)
    /\ wpc' = AfterCheck("ok")
    /\ renewal_tasks' = {}
    /\ proc' = [p \in Procs |->
                  IF IsTask(p) /\ p[2] \in renewal_tasks /\ proc[p].pc = "finished"
                  THEN IdleProc ELSE proc[p]]
    /\ UNCHANGED <<store, index, files, events, now, next_id, scan_ids,
                   certificates, permits, max_concurrent_renewals, config, timer, stream, ticks,
                   calls, faults, limit, was_dead, last>>

(***************************************************************************)
(* The service: RPC calls and the renewer, interleaved at their awaits     *)
(***************************************************************************)
IssueStep(p) ==
    \/ WriteCrt(p)
    \/ WriteKey(p)
    \/ SetEx(p)
    \/ SAdd(p)
    \/ PubIssued(p)

RenewStep(p) ==
    \/ RenewGet(p)
    \/ PubRenewed(p)

UpdateStep(p) ==
    \/ UpdGet(p)
    \/ UpdSet(p)
    \/ PubRevoked(p)

RenewerStep ==
    \/ Tick
    \/ \E i \in Ids : ScanGet(i)
    \/ ScanFault
    \/ \E i \in Ids : Acquire(i)
    \/ \E i \in Ids : PubAutoRenewed(i)
    \/ \E i \in Ids : PubRenewalFailed(i)
    \/ \E i \in Ids : PubFault(i)
    \/ \E i \in Ids : TaskExit(i)
    \/ Collect

Next ==
    \/ \E c \in Clients : CallIssue(c)
    \/ \E c \in Clients : CallRenew(c)
    \/ \E c \in Clients : CallRevoke(c)
    \/ \E c \in Clients : RpcReturn(c)
    \/ \E p \in Procs : IssueStep(p)
    \/ \E p \in Procs : RenewStep(p)
    \/ \E p \in Procs : UpdateStep(p)
    \/ \E p \in Procs : IoFault(p)
    \/ RenewerStep

Spec == Init /\ [][Next]_vars


(***************************************************************************)
(* SpecTick: the renewer alone, on a store of N active records that are    *)
(* all within the renewal threshold, for every configured                  *)
(* max_concurrent_renewals                                                 *)
(***************************************************************************)
InitTick ==
    /\ \E n \in 0 .. MaxInit :
          store = [i \in 1 .. n |-> InitRecord(i, "active_soon", 0)]
    /\ max_concurrent_renewals \in 0 .. MaxPermits
    /\ limit = [clients |-> 0, calls |-> 0, ticks |-> TickTicks, faults |-> TickFaults,
                clock |-> 0, validity_days |-> IssueValidityDays,
                dn |-> {FullDn}, renew_days |-> {0}, instant |-> 0]
    /\ config = DefaultConfig
    /\ InitCommon

NextTick ==
    \/ \E p \in TaskProcs : IssueStep(p)
    \/ \E p \in TaskProcs : RenewStep(p)
    \/ \E p \in TaskProcs : UpdateStep(p)
    \/ \E p \in TaskProcs : IoFault(p)
    \/ RenewerStep

SpecTick == InitTick /\ [][NextTick]_vars

(***************************************************************************)
(* SpecSeq: one caller, one call after the other, on any store; `last` is  *)
(* the state the previous call left                                        *)
(***************************************************************************)
InitSeq ==
    /\ \E kinds \in [InitIds -> InitKinds] :
          store = [i \in InitIds |-> InitRecord(i, kinds[i], 0)]
    /\ max_concurrent_renewals = MaxPermits
    /\ limit = [clients |-> 1, calls |-> SeqCalls, ticks |-> 0, faults |-> SeqFaults,
                clock |-> 0, validity_days |-> IssueValidityDays,
                dn |-> {FullDn}, renew_days |-> {0}, instant |-> 0]
    /\ config = DefaultConfig
    /\ InitCommon

\* RpcReturn, remembering what the call left behind
RpcReturnSeq(c) ==
    /\ proc[Rpc(c)].pc = "done"
    /\ proc' = [proc EXCEPT ![Rpc(c)] = IdleProc]
    /\ last' = [store |-> store, index |-> index, files |-> files,
                op |-> proc[Rpc(c)].op, id |-> proc[Rpc(c)].id,
                res |-> proc[Rpc(c)].res, clean |-> (faults = last.faults),
                faults |-> faults]
    /\ UNCHANGED <<store, index, files, events, now, next_id, wpc, scan_ids,
                   certificates, renewal_tasks, permits,
                   max_concurrent_renewals, config, timer, stream, ticks, calls, faults, limit, was_dead>>

NextSeq ==
    \/ \E c \in Clients : CallIssue(c)
    \/ \E c \in Clients : CallRenew(c)
    \/ \E c \in Clients : CallRevoke(c)
    \/ \E c \in Clients : CallGetStatus(c)
    \/ \E c \in Clients : RpcReturnSeq(c)
    \/ \E p \in RpcProcs : IssueStep(p)
    \/ \E p \in RpcProcs : RenewStep(p)
    \/ \E p \in RpcProcs : UpdateStep(p)
    \/ \E p \in RpcProcs : GetStatus(p)
    \/ \E p \in RpcProcs : IoFault(p)

SpecSeq == InitSeq /\ [][NextSeq]_vars

(***************************************************************************)
(* SpecScan: the renewer on a store whose records carry every status label *)
(* and expiry dates on both sides of the two ends of the renewal window    *)
(***************************************************************************)
\* expires_at - now of the initial records, in seconds
ScanOffsets == {0 - DaySeconds, 0, 1, 10 * DaySeconds,
                renewal_threshold_days * DaySeconds,
                renewal_threshold_days * DaySeconds + 1}

InitScan ==
    /\ \E st \in [InitIds -> Statuses], off \in [InitIds -> ScanOffsets] :
          store = [i \in InitIds |->
                      SetExEntry(CertificateRecord(i, InitNames(i), st[i], off[i], 0 - 20 * DaySeconds))]
    /\ max_concurrent_renewals = MaxPermits
    /\ limit = [clients |-> 0, calls |-> 0, ticks |-> ScanTicks, faults |-> ScanFaults,
                clock |-> 0, validity_days |-> IssueValidityDays,
                dn |-> {FullDn}, renew_days |-> {0}, instant |-> 0]
    /\ config = DefaultConfig
    /\ InitCommon

SpecScan == InitScan /\ [][NextTick]_vars

(***************************************************************************)
(* SpecClock: issue and renew calls with any validity_days, the clock      *)
(* running while a record is built                                         *)
(***************************************************************************)
InitClock ==
    /\ \E kinds \in [InitIds -> InitKinds] :
          /\ \A i \in InitIds : kinds[i] \in SpecKinds(i)
          /\ store = [i \in InitIds |-> InitRecord(i, kinds[i], 0)]
    /\ max_concurrent_renewals = MaxPermits
    /\ limit = [clients |-> 1, calls |-> ClockCalls, ticks |-> 0,
                faults |-> ClockFaults,
                clock |-> ClockMax, validity_days |-> AnyValidityDays,
                dn |-> {FullDn}, renew_days |-> {0}, instant |-> 0]
    /\ config = DefaultConfig
    /\ InitCommon

NextClock ==
    \/ \E c \in Clients : CallIssue(c)
    \/ \E c \in Clients : CallRenew(c)
    \/ \E c \in Clients : RpcReturn(c)
    \/ \E p \in RpcProcs : IssueStep(p)
    \/ \E p \in RpcProcs : RenewStep(p)
    \/ \E p \in RpcProcs : UpdateStep(p)
    \/ \E p \in RpcProcs : IoFault(p)

SpecClock == InitClock /\ [][NextClock]_vars

(***************************************************************************)
(* SpecList: one caller on an empty store: issue, revoke and list calls    *)
(***************************************************************************)
InitList ==
    /\ store = [i \in {} |-> InitRecord(i, "pending", 0)]
    /\ max_concurrent_renewals = MaxPermits
    /\ limit = [clients |-> 1, calls |-> ListCalls, ticks |-> 0, faults |-> ListFaults,
                clock |-> 0, validity_days |-> IssueValidityDays,
                dn |-> {FullDn}, renew_days |-> {0}, instant |-> 0]
    /\ config = DefaultConfig
    /\ InitCommon

NextList ==
    \/ \E c \in Clients : CallIssue(c)
    \/ \E c \in Clients : CallRevoke(c)
    \/ \E c \in Clients : CallList(c)
    \/ \E c \in Clients : RpcReturn(c)
    \/ \E p \in RpcProcs : IssueStep(p)
    \/ \E p \in RpcProcs : UpdateStep(p)
    \/ \E p \in RpcProcs : ListStep(p)
    \/ \E p \in RpcProcs : IoFault(p)

SpecList == InitList /\ [][NextList]_vars

(***************************************************************************)
(* Claims                                                                  *)
(***************************************************************************)
\* positions of a subtask between acquire() and the drop of _permit
HoldingPcs == {"renew_get", "write_crt", "write_key", "set_ex", "sadd",
               "pub_issued", "upd_get", "upd_set", "pub_revoked",
               "pub_renewed", "pub_auto_renewed", "pub_renewal_failed", "exit"}

Holding == {i \in Ids : proc[Task(i)].pc \in HoldingPcs}
Waiting == {i \in Ids : proc[Task(i)].pc = "acquire"}

\* C1: in every reachable state of every tick, the number of renewal
\* subtasks that hold a semaphore permit (acquired and not yet released) is
\* at most max_concurrent_renewals.
C1_RenewerParallelismBounded ==
    Cardinality(Holding) <= max_concurrent_renewals

\* C1 witness: the bound is reached while another subtask waits for a permit
C1_Witness ==
    /\ max_concurrent_renewals >= 1
    /\ Cardinality(Holding) = max_concurrent_renewals
    /\ Waiting # {}

OriginalIds == (DOMAIN store) \cap InitIds
NewIds == (DOMAIN store) \ InitIds
IdsWithStatus(ids, status) == {i \in ids : store[i].value.status = status}

\* C2: from N active records within the threshold and with no command
\* failing, the first tick ends with exactly N new records, all active and
\* indexed, all N originals revoked, and exactly one auto_renewed:<new_id>
\* event per new id and none else.
C2_AutoRenewCycle ==
    (wpc = "Idle" /\ ticks = 1 /\ faults = 0) =>
        /\ Cardinality(NewIds) = Cardinality(OriginalIds)
        /\ IdsWithStatus(NewIds, "active") = NewIds
        /\ NewIds \subseteq index
        /\ IdsWithStatus(OriginalIds, "revoked") = OriginalIds
        /\ \A i \in Ids :
              CopiesIn(Event("auto_renewed", <<i>>), events)
                  = IF i \in NewIds THEN 1 ELSE 0

\* C2 witness: a first tick over MaxInit expiring records has ended cleanly
C2_Witness ==
    /\ wpc = "Idle" /\ ticks = 1 /\ faults = 0
    /\ Cardinality(OriginalIds) = MaxInit
    /\ Cardinality(NewIds) = MaxInit

\* C3: when renew_certificate returned an error to a subtask, the subtask
\* publishes renewal_failed:<old_id>:<error> (delivered unless that publish
\* itself failed) and the old record's status is what it was when the
\* subtask started.
C3_FailedRenewalKeepsOldStatus ==
    \A i \in Ids :
        (proc[Task(i)].pc \in {"exit", "finished"} /\ proc[Task(i)].res = "err") =>
            /\ StatusOf(store, i) = proc[Task(i)].status0
            /\ \/ proc[Task(i)].warned
               \/ BagIn(Event("renewal_failed", <<i, proc[Task(i)].err>>), events)


\* labels of the steps of issue_certificate
IssuePcs == {"write_crt", "write_key", "set_ex", "sadd", "pub_issued"}

\* C4: whenever issue_certificate returned an error, neither the record
\* cert:<id> nor the certs:all entry of the id that call generated exists.
C4_FailedIssueLeavesNoStoreState ==
    \A p \in Procs :
        (proc[p].res = "err" /\ proc[p].errAt \in IssuePcs) =>
            /\ proc[p].new_id \notin DOMAIN store
            /\ proc[p].new_id \notin index

\* C5: a failure to publish on cert_events is never propagated: no call of
\* issue, renew or revoke ends in an error raised by a publish step.
C5_PublishFailureNotPropagated ==
    \A p \in Procs : proc[p].res = "err" => proc[p].errAt \notin PublishSteps

AllowedTransitions == {<<"pending", "active">>, <<"active", "revoked">>,
                       <<"active", "expired">>}

C7_NoReturnToActive ==
    \A i \in was_dead : ~(i \in DOMAIN store /\ store[i].value.status = "active")

RevokeCompleted(i) == BagIn(Event("revoked", <<i, "reason">>), events)

\* C7 witness: a record that an RPC revoke has flipped was then written
\* again by a renewal that had read it while it was active
C7_Witness ==
    \E i \in was_dead :
        /\ RevokeCompleted(i)
        /\ proc[Task(i)].pc = "pub_revoked"
        /\ Unwrap(proc[Task(i)].value).status = "revoked"

\* C8: two consecutive revoke(I), with no command failing, both succeed and
\* the second leaves the store, the index and the files as the first left
\* them.
C8_RevokeIdempotent ==
    \A c \in Clients :
        (/\ proc[Rpc(c)].pc = "done" /\ proc[Rpc(c)].op = "revoke"
         /\ last.op = "revoke" /\ last.id = proc[Rpc(c)].id
         /\ last.clean /\ faults = last.faults) =>
            /\ last.res = "ok"
            /\ proc[Rpc(c)].res = "ok"
            /\ store = last.store
            /\ index = last.index
            /\ files = last.files

\* C8 witness: the second revoke of an existing record has returned
C8_Witness ==
    \E c \in Clients :
        /\ proc[Rpc(c)].pc = "done" /\ proc[Rpc(c)].op = "revoke"
        /\ last.op = "revoke" /\ last.id = proc[Rpc(c)].id
        /\ last.clean /\ faults = last.faults
        /\ proc[Rpc(c)].id \in DOMAIN store
        /\ IsSome(proc[Rpc(c)].value)

\* C9: revoke of an id without a record, with no command failing, returns
\* success and leaves the store, the index and the files unchanged.
C9_UnknownIdRevokeIsNoop ==
    \A c \in Clients :
        (/\ proc[Rpc(c)].pc = "done" /\ proc[Rpc(c)].op = "revoke"
         /\ proc[Rpc(c)].id \notin DOMAIN last.store
         /\ faults = last.faults) =>
            /\ proc[Rpc(c)].res = "ok"
            /\ store = last.store
            /\ index = last.index
            /\ files = last.files

\* C9 witness: a revoke of the never-issued id has returned, on a store that
\* holds records
C9_Witness ==
    \E c \in Clients :
        /\ proc[Rpc(c)].pc = "done" /\ proc[Rpc(c)].op = "revoke"
        /\ proc[Rpc(c)].id = UnknownId
        /\ proc[Rpc(c)].res = "ok"
        /\ DOMAIN store # {}

\* GetCertificateStatus as the RPC answers it from the current store
GetStatusReply(i) == get_certificate(store, i)

\* C10: once a revoke(I) of an existing record has returned success, every
\* get_status(I) finds the record with status revoked.
C10_RevokedStaysRevoked ==
    \A i \in Ids :
        RevokeCompleted(i) =>
            /\ IsSome(GetStatusReply(i))
            /\ Unwrap(GetStatusReply(i)).status = "revoked"

\* C10 witness: after revoke(I) returned, a renewal of I that had read the
\* record while active is about to write it
C10_Witness ==
    \E i \in Ids :
        /\ RevokeCompleted(i)
        /\ proc[Task(i)].pc = "upd_set"
        /\ Unwrap(proc[Task(i)].value).status = "active"


\* ids for which issue_certificate has returned Ok: issued:<id> is the last
\* command of the call
Issued(i) == BagIn(Event("issued", <<i>>), events)

\* a ListCertificates call that has returned Ok, with its filter
ListDone(c, status_filter) ==
    /\ proc[Rpc(c)].pc = "done"
    /\ proc[Rpc(c)].op = "list"
    /\ proc[Rpc(c)].res = "ok"
    /\ proc[Rpc(c)].status_filter = status_filter

ExpiringWithin(s, t, threshold_days) ==
    {i \in DOMAIN s : /\ s[i].value.status = "active"
                      /\ 0 < s[i].value.expires_at - t
                      /\ s[i].value.expires_at - t <= threshold_days * 86400}

\* C12: when the scan of a tick returns, the records handed to renewal are
\* exactly the active records of the store with
\* 0 < expires_at - now <= threshold_days * 86400.
C12_ExpiringWithinExact ==
    [][(wpc = "Scanning" /\ wpc' # "Scanning" /\ faults' = faults) =>
          renewal_tasks' = ExpiringWithin(store, now, renewal_threshold_days)]_vars

\* C12 witness: the scan picked a record at the upper end of the window and
\* left out an active record that is past expiry or beyond the threshold
C12_Witness ==
    /\ wpc = "Collecting"
    /\ \A i \in renewal_tasks : proc[Task(i)].pc = "acquire"
    /\ \E i \in renewal_tasks :
          store[i].value.expires_at - now = renewal_threshold_days * DaySeconds
    /\ \E j \in (DOMAIN store) \ renewal_tasks : store[j].value.status = "active"


\* C13: every record written by issue_certificate has issued_at <= expires_at,
\* for every validity_days and every advance of the clock between the two
\* readings of now.
C13_IssuedBeforeExpires ==
    \A i \in NewIds \cap DOMAIN store :
        store[i].value.issued_at <= store[i].value.expires_at

\* no call and no renewer run is under way
Quiescent ==
    /\ wpc = "Idle"
    /\ \A p \in Procs : proc[p].pc \in {"idle", "done", "finished"}

\* C14: between operations the certs:all index is the set of the ids that
\* have a cert:<id> record in the store, also after an operation of which one
\* store command failed.
C14_IndexMatchesStore ==
    Quiescent => index = DOMAIN store

\* C15: after update_certificate_status has rewritten an existing record the
\* key carries the one-year TTL again.
C15_UpdateRefreshesTtl ==
    \A p \in Procs :
        (proc[p].pc = "pub_revoked" /\ IsSome(proc[p].value)) =>
            store[proc[p].id].ttl = RecordTtl

RpcDone(c, op) == proc[Rpc(c)].pc = "done" /\ proc[Rpc(c)].op = op

\* RPC status codes that report a conflict
ConflictCodes == {"AlreadyExists", "FailedPrecondition", "Aborted"}

\* C17: RenewCertificate on an id without a record answers not-found, and on
\* a record that is not active a conflict.
C17_RenewErrorsSurfaced ==
    \A c \in Clients :
        (RpcDone(c, "renew") /\ proc[Rpc(c)].res = "err") =>
            LET status == RenewRpcStatus(proc[Rpc(c)].res, proc[Rpc(c)].err)
            IN  /\ proc[Rpc(c)].err = "CertificateNotFound" => status = "NotFound"
                /\ proc[Rpc(c)].err = "Certificate" => status \in ConflictCodes

\* C18: RevokeCertificate never fails the call: it answers success = true when
\* the revoke succeeded, and success = false with the error in the message
\* when it failed.
C18_RevokeRpcNeverFails ==
    \A c \in Clients :
        RpcDone(c, "revoke") =>
            LET r == RevokeResponse(proc[Rpc(c)].id, proc[Rpc(c)].res, proc[Rpc(c)].err)
            IN  /\ r.status = "Ok"
                /\ r.success = (proc[Rpc(c)].res = "ok")
                /\ ~r.success => r.message[Len(r.message)] = proc[Rpc(c)].err

\* C18 witness: a revoke whose publish failed has returned
C18_Witness ==
    \E c \in Clients :
        /\ RpcDone(c, "revoke")
        /\ proc[Rpc(c)].res = "err"
        /\ proc[Rpc(c)].errAt = "pub_revoked"

Listed(status_filter) ==
    {store[i].value : i \in {j \in index \cap DOMAIN store :
                               ~IsSome(status_filter)
                               \/ store[j].value.status = Unwrap(status_filter)}}

IssuedIds == {i \in Ids : Issued(i)}

\* C20: list(status) returns exactly the records reachable from certs:all with
\* that status, list() all of them; with the records of three issues in the
\* store, one of them revoked, list("active") has two records and
\* list("revoked") one.
C20_ListFiltersByStatus ==
    \A c \in Clients, status \in ListRequestStatuses :
        ListDone(c, ListFilter(status)) =>
            /\ proc[Rpc(c)].certificates = Listed(ListFilter(status))
            /\ (/\ Cardinality(IssuedIds) = 3
                /\ DOMAIN store = IssuedIds
                /\ Cardinality(IssuedIds \cap was_dead) = 1) =>
                  /\ status = "ACTIVE" => Cardinality(proc[Rpc(c)].certificates) = 2
                  /\ status = "REVOKED" => Cardinality(proc[Rpc(c)].certificates) = 1

\* C20 witness: list("active") has returned after three issues and one revoke
C20_Witness ==
    \E c \in Clients :
        /\ ListDone(c, Some("active"))
        /\ Cardinality(IssuedIds) = 3
        /\ DOMAIN store = IssuedIds
        /\ Cardinality(IssuedIds \cap was_dead) = 1
        /\ Cardinality(proc[Rpc(c)].certificates) = 2

\* subtasks that were spawned and have not returned
RunningTasks == {i \in Ids : proc[Task(i)].pc # "idle"}

\* C21: a tick returns to Idle only after every subtask it dispatched has
\* finished: while the renewer waits for the next tick or scans in it, no
\* subtask of an earlier tick is still running.
C21_TickJoinsItsSubtasks ==
    wpc \in {"Idle", "Scanning"} => RunningTasks = {}

\* C21 witness: the second tick scans after the first one ran subtasks
C21_Witness ==
    /\ wpc = "Scanning"
    /\ ticks = 2
    /\ RunningTasks = {}
    /\ \E i \in Ids : BagIn(Event("auto_renewed", <<i>>), events)

\* the record an issued record was renewed from: renew_certificate copies the
\* common_name, and the records the process starts on have one name each
RenewedFrom(n) ==
    {i \in OriginalIds : store[i].value.common_name = store[n].value.common_name}

\* C22: in a renewal subtask that succeeds the old record is revoked before
\* auto_renewed:<new_id> is published, and issued:<new_id> and
\* revoked:<old_id> have been published by then; auto_renewed is published
\* only when the status update of the old record succeeded.
C22_AutoRenewedAfterOldRevoked ==
    /\ \A i \in Ids :
          LET p == proc[Task(i)]
          IN  (\/ p.pc = "pub_auto_renewed"
               \/ p.pc \in {"exit", "finished"} /\ p.res = "ok") =>
                 /\ StatusOf(store, i) = Some("revoked")
                 /\ BagIn(Event("issued", <<p.new_id>>), events)
                 /\ BagIn(Event("revoked", <<i>>), events)
    /\ \A n \in Ids :
          BagIn(Event("auto_renewed", <<n>>), events) =>
             /\ n \in NewIds
             /\ BagIn(Event("issued", <<n>>), events)
             /\ \E i \in RenewedFrom(n) :
                   /\ store[i].value.status = "revoked"
                   /\ BagIn(Event("revoked", <<i>>), events)

\* C22 witness: a subtask has published auto_renewed for the record it issued
C22_Witness ==
    \E i \in Ids :
        /\ proc[Task(i)].pc = "exit"
        /\ proc[Task(i)].res = "ok"
        /\ BagIn(Event("auto_renewed", <<proc[Task(i)].new_id>>), events)
        /\ store[i].value.status = "revoked"

(***************************************************************************)
(* SpecRenew: renewals only, by RenewCertificate calls with any            *)
(* validity_days and by the renewer, on active records                     *)
(***************************************************************************)
InitRenew ==
    /\ \E kind \in {"active_soon", "active_far"} :
          store = [i \in {1} |-> InitRecord(i, kind, 0)]
    /\ max_concurrent_renewals = MaxPermits
    /\ limit = [clients |-> 1, calls |-> RenewCalls, ticks |-> RenewTicks,
                faults |-> RenewFaults, clock |-> 0,
                validity_days |-> IssueValidityDays,
                dn |-> {FullDn}, renew_days |-> AnyValidityDays, instant |-> 0]
    /\ config = DefaultConfig
    /\ InitCommon

NextRenew ==
    \/ \E c \in Clients : CallRenew(c)
    \/ \E c \in Clients : RpcReturn(c)
    \/ \E p \in Procs : IssueStep(p)
    \/ \E p \in Procs : RenewStep(p)
    \/ \E p \in Procs : UpdateStep(p)
    \/ \E p \in Procs : IoFault(p)
    \/ RenewerStep

SpecRenew == InitRenew /\ [][NextRenew]_vars

\* a renewal that has stored the record of the new certificate
Renewing(p) ==
    /\ proc[p].op = "renew"
    /\ proc[p].new_id \in DOMAIN store

\* C23: the record a renewal issues carries the common_name, dns_names,
\* ip_addresses and metadata of the record it renews, and its certificate has
\* no subject component besides CN; a renewal by the renewer is valid for
\* default_validity_days, one by RPC for the caller's validity_days when that
\* is greater than 0 and for default_validity_days when it is 0.
C23_RenewalCopiesRecord ==
    \A p \in Procs :
        Renewing(p) =>
            LET old == store[proc[p].id].value
                new == store[proc[p].new_id].value
                days == IF IsTask(p) \/ proc[p].requested_days = 0
                        THEN default_validity_days
                        ELSE proc[p].requested_days
            IN  /\ new.common_name = old.common_name
                /\ new.dns_names = old.dns_names
                /\ new.ip_addresses = old.ip_addresses
                /\ new.metadata = old.metadata
                /\ new.expires_at - new.issued_at = days * DaySeconds
                /\ IsSome(proc[p].subject)
                /\ DOMAIN Unwrap(proc[p].subject) = {"CN"}

\* C23 witness: a renewal by RPC for one day and a renewal by the renewer
\* have both stored their new record
C23_Witness ==
    /\ \E c \in Clients : Renewing(Rpc(c)) /\ proc[Rpc(c)].requested_days = 1
    /\ \E i \in Ids : Renewing(Task(i))

(***************************************************************************)
(* SpecConfig: the renewer under a configuration file that sets            *)
(* certificate.renewal_threshold_days and watcher.renewal_threshold_days   *)
(* each on its own                                                         *)
(***************************************************************************)
\* values of the two renewal_threshold_days settings, in days
ThresholdDays == {7, renewal_threshold_days}

\* expires_at - now of the initial records, in seconds
ConfigOffsets == {5 * DaySeconds, 10 * DaySeconds, 40 * DaySeconds}

InitConfig ==
    /\ \E st \in [InitIds -> {"active", "revoked"}], off \in [InitIds -> ConfigOffsets] :
          store = [i \in InitIds |->
                      SetExEntry(CertificateRecord(i, InitNames(i), st[i], off[i], 0 - 20 * DaySeconds))]
    /\ max_concurrent_renewals = MaxPermits
    /\ limit = [clients |-> 0, calls |-> 0, ticks |-> ConfigTicks, faults |-> ConfigFaults,
                clock |-> 0, validity_days |-> IssueValidityDays,
                dn |-> {FullDn}, renew_days |-> {0}, instant |-> 0]
    /\ \E certificate_days \in ThresholdDays, watcher_days \in ThresholdDays :
          config = [DefaultConfig EXCEPT
                       !.renewal_threshold_days = certificate_days,
                       !.watcher_renewal_threshold_days = watcher_days]
    /\ InitCommon

SpecConfig == InitConfig /\ [][NextTick]_vars

\* C24: the records a tick hands to renewal are the active records within
\* the renewer's own threshold, watcher.renewal_threshold_days, whatever
\* certificate.renewal_threshold_days is set to.
C24_RenewerUsesWatcherThreshold ==
    [][(wpc = "Scanning" /\ wpc' # "Scanning" /\ faults' = faults) =>
          renewal_tasks' =
              ExpiringWithin(store, now, config.watcher_renewal_threshold_days)]_vars

\* ids for which a subtask has published renewal_failed
FailedIds ==
    {i \in Ids : \E e \in {"Redis", "Io", "OpenSsl", "Certificate", "CertificateNotFound"} :
                    BagIn(Event("renewal_failed", <<i, e>>), events)}

\* C25: an error in a tick does not stop the renewer: it stays in its loop,
\* and a record whose renewal failed and that is still active and within the
\* threshold is handed to renewal again by the next tick.
C25_RenewerSurvivesErrors ==
    /\ wpc \in {"Idle", "Scanning", "Collecting"}
    /\ (wpc = "Collecting" /\ ticks >= 2) =>
          \A i \in FailedIds :
              i \in ExpiringWithin(store, now, config.renewal_threshold_days)
                  => i \in renewal_tasks

\* C25 witness: the second tick has dispatched the record whose renewal
\* failed in the first
C25_Witness ==
    /\ wpc = "Collecting"
    /\ ticks = 2
    /\ faults = 1
    /\ \E i \in FailedIds \cap renewal_tasks :
          /\ store[i].value.status = "active"
          /\ proc[Task(i)].pc = "acquire"

(***************************************************************************)
(* SpecInterval: the renewer with the time its ticks take                  *)
(***************************************************************************)
\* start 44: time passes while check_and_renew_certificates runs (the scan
\* and the subtasks wait for Redis, the file system and the semaphore)
Elapse ==
    /\ wpc \in {"Scanning", "Collecting"}
    /\ timer.instant < limit.instant
    /\ timer' = [timer EXCEPT !.instant = @ + 1]
    /\ UNCHANGED <<store, index, files, events, now, next_id, proc, wpc, scan_ids,
                   certificates, renewal_tasks, permits, max_concurrent_renewals,
                   ticks, calls, faults, limit, config, stream, was_dead, last>>

InitInterval ==
    /\ store = [i \in {1} |-> InitRecord(i, "active_soon", 0)]
    /\ max_concurrent_renewals = MaxPermits
    /\ limit = [clients |-> 0, calls |-> 0, ticks |-> IntervalTicks,
                faults |-> IntervalFaults, clock |-> 0,
                validity_days |-> IssueValidityDays,
                dn |-> {FullDn}, renew_days |-> {0}, instant |-> IntervalMax]
    /\ config = [DefaultConfig EXCEPT !.check_interval_seconds = IntervalPeriod]
    /\ InitCommon

NextInterval ==
    \/ NextTick
    \/ Elapse

SpecInterval == InitInterval /\ [][NextInterval]_vars

\* C26: ticks do not catch up: after a tick whose work took longer than
\* check_interval_seconds, also several intervals, one tick fires at once and
\* the ticks that were missed meanwhile are not replayed: when a tick has
\* fired, the tick after it is not already due.
C26_TicksDoNotCatchUp ==
    timer.fired # <<>> => timer.deadline > timer.fired[Len(timer.fired)]

(***************************************************************************)
(* CertificateWatcher::cleanup_expired_certificates (watcher.rs 176-209)   *)
(* and RedisClient::delete_certificate (redis_client.rs 140-154)           *)
(***************************************************************************)
\* the days_old a caller passes
CleanupDaysOld == {0, 2}

\* 178-179: cutoff_time from the clock, then list_certificates(Some("expired"))
CallCleanup ==
    /\ proc[CleanupProc].pc = "idle"
    /\ calls < limit.calls
    /\ \E days_old \in CleanupDaysOld :
          proc' = [proc EXCEPT ![CleanupProc] =
                      [IdleProc EXCEPT !.pc = "smembers", !.op = "cleanup",
                                       !.status_filter = Some("expired"),
                                       !.cutoff_time = now - days_old * DaySeconds]]
    /\ calls' = calls + 1
    /\ UNCHANGED <<store, index, files, events, now, next_id, wpc, scan_ids,
                   certificates, renewal_tasks, permits, max_concurrent_renewals,
                   config, timer, stream, ticks, faults, limit, was_dead, last>>

\* 184: the listed records the loop has still to delete
Outdated(p) == {cert \in proc[p].certificates : cert.expires_at < proc[p].cutoff_time}

\* remove key cert:<id>
DelKey(s, id) == [k \in (DOMAIN s) \ {id} |-> s[k]]

\* 183-186 -> delete_certificate 145-147: DEL cert:<id> for the next record
\* older than the cutoff
Del(p) ==
    /\ proc[p].pc = "cleanup_loop"
    /\ \E cert \in Outdated(p) :
          /\ store' = DelKey(store, cert.certificate_id)
          /\ proc' = [proc EXCEPT ![p].certificates = @ \ {cert},
                                  ![p].id = cert.certificate_id,
                                  ![p].pc = "srem"]
    /\ UNCHANGED <<index, files, events, now, next_id, wpc, scan_ids,
                   certificates, renewal_tasks, permits, max_concurrent_renewals,
                   config, timer, stream, ticks, calls, faults, limit, was_dead, last>>

\* delete_certificate 149-153: SREM certs:all <id>; 191: cleaned_count += 1
SRem(p) ==
    /\ proc[p].pc = "srem"
    /\ index' = index \ {proc[p].id}
    /\ proc' = [proc EXCEPT ![p].cleaned_count = @ + 1, ![p].pc = "cleanup_loop"]
    /\ UNCHANGED <<store, files, events, now, next_id, wpc, scan_ids,
                   certificates, renewal_tasks, permits, max_concurrent_renewals,
                   config, timer, stream, ticks, calls, faults, limit, was_dead, last>>

\* 186-190: DEL or SREM fails: delete_certificate returns Err, the loop warns
\* and goes on with the next record without counting this one
DeleteFault(p) ==
    /\ \/ proc[p].pc = "srem" /\ proc' = [proc EXCEPT ![p].warned = TRUE,
                                                      ![p].pc = "cleanup_loop"]
       \/ /\ proc[p].pc = "cleanup_loop"
          /\ \E cert \in Outdated(p) :
                proc' = [proc EXCEPT ![p].certificates = @ \ {cert},
                                     ![p].id = cert.certificate_id,
                                     ![p].warned = TRUE]
    /\ faults < limit.faults
    /\ faults' = faults + 1
    /\ UNCHANGED <<store, index, files, events, now, next_id, wpc, scan_ids,
                   certificates, renewal_tasks, permits, max_concurrent_renewals,
                   config, timer, stream, ticks, calls, limit, was_dead, last>>

\* 198-208: after the loop the event is published `if cleaned_count > 0`,
\* otherwise the function returns Ok(()) at once
CleanupEnd(p) ==
    /\ proc[p].pc = "cleanup_loop"
    /\ Outdated(p) = {}
    /\ proc' = IF proc[p].cleaned_count > 0
               THEN [proc EXCEPT ![p].pc = "pub_cleanup"]
               ELSE ReturnOk(p)
    /\ UNCHANGED <<store, index, files, events, now, next_id, wpc, scan_ids,
                   certificates, renewal_tasks, permits, max_concurrent_renewals,
                   config, timer, stream, ticks, calls, faults, limit, was_dead, last>>

\* 203-205: publish_event("cleanup", "removed:<cleaned_count>")
PubCleanup(p) ==
    /\ proc[p].pc = "pub_cleanup"
    /\ events' = Publish(Event("cleanup", <<"removed", proc[p].cleaned_count>>))
    /\ proc' = ReturnOk(p)
    /\ UNCHANGED <<store, index, files, now, next_id, wpc, scan_ids,
                   certificates, renewal_tasks, permits, max_concurrent_renewals,
                   config, timer, stream, ticks, calls, faults, limit, was_dead, last>>

(***************************************************************************)
(* SpecCleanup: one cleanup call on a store with expired and active        *)
(* records on both sides of the cutoff                                     *)
(***************************************************************************)
\* expires_at - now of the initial records, in seconds
CleanupOffsets == {0 - 3 * DaySeconds, 0 - 2 * DaySeconds, 0 - DaySeconds, 10 * DaySeconds}

InitCleanup ==
    /\ \E st \in [InitIds -> {"expired", "active", "revoked"}],
          off \in [InitIds -> CleanupOffsets] :
          store = [i \in InitIds |->
                      SetExEntry(CertificateRecord(i, InitNames(i), st[i], off[i],
                                                   0 - 40 * DaySeconds))]
    /\ max_concurrent_renewals = MaxPermits
    /\ limit = [clients |-> 0, calls |-> CleanupCalls, ticks |-> 0,
                faults |-> CleanupFaults, clock |-> 0,
                validity_days |-> IssueValidityDays,
                dn |-> {FullDn}, renew_days |-> {0}, instant |-> 0]
    /\ config = DefaultConfig
    /\ InitCommon

NextCleanup ==
    \/ CallCleanup
    \/ ListStep(CleanupProc)
    \/ Del(CleanupProc)
    \/ SRem(CleanupProc)
    \/ DeleteFault(CleanupProc)
    \/ CleanupEnd(CleanupProc)
    \/ PubCleanup(CleanupProc)
    \/ IoFault(CleanupProc)

SpecCleanup == InitCleanup /\ [][NextCleanup]_vars

\* the records cleanup_expired_certificates is to delete, in the store the
\* call started on
ToClean == {i \in DOMAIN last.store :
               /\ last.store[i].value.status = "expired"
               /\ last.store[i].value.expires_at < proc[CleanupProc].cutoff_time}

\* C27: cleanup_expired_certificates(days_old) deletes exactly the records
\* with status expired and expires_at < now - days_old * 86400, record and
\* index entry, leaves every other record as it was, and publishes
\* cleanup:removed:<n> for the number n of records it removed, also for n = 0.
C27_CleanupRemovesOldExpired ==
    (/\ proc[CleanupProc].pc = "done"
     /\ proc[CleanupProc].res = "ok"
     /\ faults = 0) =>
        /\ DOMAIN store = (DOMAIN last.store) \ ToClean
        /\ index = last.index \ ToClean
        /\ \A i \in DOMAIN store : store[i] = last.store[i]
        /\ BagIn(Event("cleanup", <<"removed", Cardinality(ToClean)>>), events)

\* a call that is writing the record it read back with a new status
Updating(p) == proc[p].pc = "upd_set" /\ proc'[p].pc # "upd_set" /\ store' # store

InitSubject ==
    /\ store = [i \in {} |-> InitRecord(i, "active_far", 0)]
    /\ max_concurrent_renewals = MaxPermits
    /\ limit = [clients |-> 1, calls |-> SubjectCalls, ticks |-> 0,
                faults |-> SubjectFaults, clock |-> 0,
                validity_days |-> IssueValidityDays,
                dn |-> DnRequests, renew_days |-> {0}, instant |-> 0]
    /\ config = DefaultConfig
    /\ InitCommon

NextSubject ==
    \/ \E c \in Clients : CallIssue(c)
    \/ \E c \in Clients : RpcReturn(c)
    \/ \E p \in RpcProcs : IssueStep(p)
    \/ \E p \in RpcProcs : IoFault(p)

SpecSubject == InitSubject /\ [][NextSubject]_vars

\* the optional components a request supplies with a text
Supplied(dn) == {k \in DnKeys : IsSome(dn[k]) /\ Unwrap(dn[k]) # ""}

\* C29: the subject of an issued certificate holds CN and, of O, OU, C, ST
\* and L, exactly those the request supplies with a non-empty text: an
\* IssueCertificate request with an empty component gets a certificate
\* whose subject lacks that component.
C29_SubjectOmitsEmptyComponents ==
    \A c \in Clients :
        proc[Rpc(c)].op = "issue" =>
            /\ proc[Rpc(c)].errAt # "name"
            /\ IsSome(proc[Rpc(c)].subject) =>
                  DOMAIN Unwrap(proc[Rpc(c)].subject)
                      = {"CN"} \cup Supplied(proc[Rpc(c)].dn)

(***************************************************************************)
(* CertAgentService::watch_certificates (grpc.rs 276-343)                  *)
(***************************************************************************)
\* 276-294: the request's certificate_ids are moved into the spawned task
CallWatch ==
    /\ proc[WatchProc].pc = "idle"
    /\ calls < limit.calls
    /\ \E ids \in SUBSET Targets :
          proc' = [proc EXCEPT ![WatchProc] =
                      [IdleProc EXCEPT !.pc = "watch_tick", !.op = "watch",
                                       !.req_certificate_ids = ids]]
    /\ calls' = calls + 1
    /\ UNCHANGED <<store, index, files, events, now, next_id, wpc, scan_ids,
                   certificates, renewal_tasks, permits, max_concurrent_renewals,
                   config, timer, stream, ticks, faults, limit, was_dead, last>>

\* 299-302: interval.tick(), then get_expiring_certificates ->
\* list_certificates(Some("active"))
WatchTick(p) ==
    /\ proc[p].pc = "watch_tick"
    /\ proc[p].tick < limit.ticks
    /\ proc' = [proc EXCEPT ![p].tick = @ + 1, ![p].pc = "smembers",
                            ![p].status_filter = Some("active"),
                            ![p].certificates = {},
                            ![p].res = "none", ![p].err = "none", ![p].errAt = "none"]
    /\ UNCHANGED <<store, index, files, events, now, next_id, wpc, scan_ids,
                   certificates, renewal_tasks, permits, max_concurrent_renewals,
                   config, timer, stream, ticks, calls, faults, limit, was_dead, last>>

\* mutant: every expiring record is reported, whatever the request's ids
Watched_All(certificate_ids, id) == TRUE

\* 306-307: certificate_ids.is_empty() || certificate_ids.contains(&id)
Watched(certificate_ids, id) == certificate_ids = {} \/ id \in certificate_ids

\* 303-308: the expiring records of this tick that are still to be sent
ToSend(p) ==
    {cert \in Expiring(proc[p].certificates, now) :
        Watched(proc[p].req_certificate_ids, cert.certificate_id)}

\* 328: certificate_id: String::new(), the id no record has
EmptyId == 0 - 1

\* the CertificateEvent of a tick of the stream
CertificateEvent(tick, id, event_type) == <<tick, id, event_type>>

\* 309-322: tx.send(Ok(event)) to a connected client
WatchSend(p) ==
    /\ proc[p].pc = "watch_send"
    /\ stream.open
    /\ \E cert \in ToSend(p) :
          /\ stream' = [stream EXCEPT !.sent =
                           @ (+) SetToBag({CertificateEvent(proc[p].tick,
                                                            cert.certificate_id,
                                                            "EXPIRING")})]
          /\ proc' = [proc EXCEPT ![p].certificates = @ \ {cert}]
    /\ UNCHANGED <<store, index, files, events, now, next_id, wpc, scan_ids,
                   certificates, renewal_tasks, permits, max_concurrent_renewals,
                   config, timer, ticks, calls, faults, limit, was_dead, last>>

\* 320-322, 334-336: the send fails because the receiver is gone: return
WatchSendFails(p) ==
    /\ \/ proc[p].pc = "watch_send" /\ ToSend(p) # {}
       \/ proc[p].pc = "watch_error"
    /\ ~stream.open
    /\ proc' = [proc EXCEPT ![p].pc = "stopped"]
    /\ UNCHANGED <<store, index, files, events, now, next_id, wpc, scan_ids,
                   certificates, renewal_tasks, permits, max_concurrent_renewals,
                   config, timer, stream, ticks, calls, faults, limit, was_dead, last>>

\* 304-324: the loop over the expiring records is over: next interval.tick()
WatchLoop(p) ==
    /\ proc[p].pc = "watch_send"
    /\ ToSend(p) = {}
    /\ proc' = [proc EXCEPT ![p].pc = "watch_tick", ![p].certificates = {}]
    /\ UNCHANGED <<store, index, files, events, now, next_id, wpc, scan_ids,
                   certificates, renewal_tasks, permits, max_concurrent_renewals,
                   config, timer, stream, ticks, calls, faults, limit, was_dead, last>>

\* 325-337: get_expiring_certificates returned Err: an event of type
\* Unspecified with an empty certificate_id is sent
WatchError(p) ==
    /\ proc[p].pc = "watch_error"
    /\ stream.open
    /\ stream' = [stream EXCEPT !.sent =
                     @ (+) SetToBag({CertificateEvent(proc[p].tick, EmptyId, "UNSPECIFIED")})]
    /\ proc' = [proc EXCEPT ![p].pc = "watch_tick", ![p].certificates = {},
                            ![p].certificate_ids = {}]
    /\ UNCHANGED <<store, index, files, events, now, next_id, wpc, scan_ids,
                   certificates, renewal_tasks, permits, max_concurrent_renewals,
                   config, timer, ticks, calls, faults, limit, was_dead, last>>

\* the client drops the ReceiverStream the call returned (342)
ClientDisconnect ==
    /\ proc[WatchProc].op = "watch"
    /\ stream.open
    /\ stream' = [stream EXCEPT !.open = FALSE]
    /\ UNCHANGED <<store, index, files, events, now, next_id, proc, wpc, scan_ids,
                   certificates, renewal_tasks, permits, max_concurrent_renewals,
                   config, timer, ticks, calls, faults, limit, was_dead, last>>

(***************************************************************************)
(* SpecWatch: one WatchCertificates stream on any store                    *)
(***************************************************************************)
InitWatch ==
    /\ \E kinds \in [InitIds -> InitKinds] :
          store = [i \in InitIds |-> InitRecord(i, kinds[i], 0)]
    /\ max_concurrent_renewals = MaxPermits
    /\ limit = [clients |-> 0, calls |-> WatchCalls, ticks |-> WatchTicks,
                faults |-> WatchFaults, clock |-> 0,
                validity_days |-> IssueValidityDays,
                dn |-> {FullDn}, renew_days |-> {0}, instant |-> 0]
    /\ config = DefaultConfig
    /\ InitCommon

NextWatch ==
    \/ CallWatch
    \/ WatchTick(WatchProc)
    \/ ListStep(WatchProc)
    \/ IoFault(WatchProc)
    \/ WatchSend(WatchProc)
    \/ WatchSendFails(WatchProc)
    \/ WatchLoop(WatchProc)
    \/ WatchError(WatchProc)
    \/ ClientDisconnect

SpecWatch == InitWatch /\ [][NextWatch]_vars

\* Expiring events of tick t of the stream for record i
ExpiringSent(t, i) == CopiesIn(CertificateEvent(t, i, "EXPIRING"), stream.sent)

\* the records the stream is to report: expiring and named by the request,
\* or expiring when the request names none
WatchExpected ==
    {i \in ExpiringWithin(store, now, config.renewal_threshold_days) :
        \/ proc[WatchProc].req_certificate_ids = {}
        \/ i \in proc[WatchProc].req_certificate_ids}

\* tick t of the stream has run to its end, its scan without error
TickComplete(t) ==
    /\ t < proc[WatchProc].tick \/ proc[WatchProc].pc = "watch_tick"
    /\ ~BagIn(CertificateEvent(t, EmptyId, "UNSPECIFIED"), stream.sent)

ActiveSuccessors(i) ==
    {n \in NewIds : /\ store[n].value.common_name = last.store[i].value.common_name
                    /\ store[n].value.status = "active"}

\* C31: an original record gets at most one successor under concurrency: of
\* two renewals of the same id that run concurrently (an RPC renew and a
\* renewer subtask), at most one creates a new active record and the other
\* fails with a status conflict.
C31_OneSuccessorUnderConcurrency ==
    faults = 0 =>
        \A i \in DOMAIN last.store :
            /\ Cardinality(ActiveSuccessors(i)) <= 1
            /\ \A c \in Clients :
                  (/\ RpcDone(c, "renew")
                   /\ proc[Rpc(c)].id = i
                   /\ proc[Task(i)].pc \in {"exit", "finished"}
                   /\ proc[Task(i)].res = "ok") =>
                      /\ proc[Rpc(c)].res = "err"
                      /\ proc[Rpc(c)].err = "Certificate"

\* a renewal that is putting the record of the new certificate into the store
StoringSuccessor(p) ==
    /\ proc[p].op = "renew"
    /\ proc[p].pc = "set_ex"
    /\ proc'[p].pc # "set_ex"
    /\ store' # store

\* a RevokeCertificate call for id i that has rewritten the record
Revoked(i) ==
    \E c \in Clients : /\ proc[Rpc(c)].op = "revoke"
                       /\ proc[Rpc(c)].id = i
                       /\ proc[Rpc(c)].pc \in {"pub_revoked", "done"}
                       /\ i \in DOMAIN store
                       /\ store[i].value.status = "revoked"

\* C32: a revoked certificate is never renewed: no renewal puts a successor
\* record into the store while the record of the old id, rewritten by a
\* revoke, has status revoked, whatever the interleaving of the revoke with
\* an RPC renew or a renewer subtask for the same id.
C32_RevokedIsNeverRenewed ==
    [][\A p \in Procs :
          StoringSuccessor(p) => ~Revoked(proc[p].id)]_vars

\* C33: a renewal leaves no gap: when renew_certificate (RPC or renewer)
\* flips a record to revoked, the store already holds the successor record it
\* issued, with the same common_name, stored as active (and active still,
\* unless another call has rewritten the successor since).
C33_SuccessorStoredBeforeFlip ==
    [][\A p \in Procs :
          (Updating(p) /\ proc[p].op = "renew") =>
              /\ proc[p].new_id \in DOMAIN store
              /\ proc[p].new_id # proc[p].id
              /\ store[proc[p].new_id].value.common_name
                     = store[proc[p].id].value.common_name
              /\ \/ store[proc[p].new_id].value.status = "active"
                 \/ proc[p].new_id \in was_dead]_vars

\* C33 witness: a renewal has flipped the old record and its successor is
\* in the store, active, under the same name
C33_Witness ==
    \E p \in Procs :
        /\ proc[p].op = "renew"
        /\ proc[p].pc = "pub_revoked"
        /\ store[proc[p].id].value.status = "revoked"
        /\ proc[p].new_id \in DOMAIN store
        /\ store[proc[p].new_id].value.status = "active"
        /\ store[proc[p].new_id].value.common_name = store[proc[p].id].value.common_name

\* C34: retried renewals do not accumulate duplicates: over the ticks of the
\* renewer, with renewal attempts failing at any step, the store never holds
\* more than one active successor of an original record.
C34_RetriesDoNotDuplicate ==
    \A i \in DOMAIN last.store : Cardinality(ActiveSuccessors(i)) <= 1

(***************************************************************************)
(* SpecConverge: the renewer alone over two ticks, for pairs of            *)
(* certificate.default_validity_days and certificate.renewal_threshold_days*)
(* (Config::load takes any two u32: config.rs 56-70)                       *)
(***************************************************************************)
ConvergeTicks == 2
ConvergeFaults == 1

\* certificate.default_validity_days: below, at and above the threshold
ConvergeValidityDays == {7, renewal_threshold_days, default_validity_days}

InitConverge ==
    /\ \E n \in 0 .. MaxInit :
          store = [i \in 1 .. n |-> InitRecord(i, "active_soon", 0)]
    /\ max_concurrent_renewals = MaxPermits
    /\ limit = [clients |-> 0, calls |-> 0, ticks |-> ConvergeTicks,
                faults |-> ConvergeFaults,
                clock |-> 0, validity_days |-> IssueValidityDays,
                dn |-> {FullDn}, renew_days |-> {0}, instant |-> 0]
    /\ \E days \in ConvergeValidityDays :
          config = [DefaultConfig EXCEPT !.default_validity_days = days]
    /\ InitCommon

SpecConverge == InitConverge /\ [][NextTick]_vars

\* C35: renewal converges: after a tick in which every renewal succeeded,
\* the tick run next finds no expiring record and starts no renewal, for
\* every configured default_validity_days and renewal_threshold_days.
C35_RenewalConverges ==
    (faults = 0 /\ ticks = 2) => renewal_tasks = {}

(***************************************************************************)
(* SpecLive: SpecTick under the scheduling of the tokio runtime: a step of *)
(* the renewer or of a subtask that can be taken is eventually taken (each *)
(* store, filesystem and issuer call returns, with Ok or with Err)         *)
(***************************************************************************)
SpecLive == InitTick /\ [][NextTick]_vars /\ WF_vars(NextTick)

\* C36: every renewer tick terminates: a tick that has started eventually
\* is back at Idle with every semaphore permit released, for every
\* configured max_concurrent_renewals, 0 included.
C36_TickTerminates ==
    (wpc \in {"Scanning", "Collecting"}) ~>
        (wpc = "Idle" /\ permits = max_concurrent_renewals)

=============================================================================
